---------------------------- MODULE Spec2Model ----------------------------
(* Model of the note access layer (convex/notes.ts) and of the          *)
(* presentation layer's create / edit flows (src/NotesApp.tsx).          *)
(* Strings that the code inspects character by character (the search     *)
(* query, titles, contents, tags, the tags field of the form) are        *)
(* sequences of one-character strings; identifiers, storage keys and     *)
(* URLs are TLA+ strings, which the code only compares for equality.     *)
EXTENDS Integers, Sequences, FiniteSets, TLC

VARIABLES
  notes,        \* the "notes" table: note id -> document
  nextId,       \* the next identity / creation time the store assigns
  blobs,        \* Blob Storage: the storage keys that hold bytes
  last,         \* the last mutation call: operation, caller, id, outcome
  createdBy,    \* history: createdBy[i] is the caller that created note i
  deleted,      \* history: the ids a successful remove has deleted
  isCreating,   \* NotesApp state: the create form is open
  editingNote,  \* NotesApp state: <<>> (null) or <<the note being edited>>
  formFile,     \* NoteForm state: the selected file, or Undefined
  formImageUrl, \* NoteForm state: the text of the image URL field
  lastSave      \* the last form save: what it sent and how the upload went

vars == <<notes, nextId, blobs, last, createdBy, deleted,
          isCreating, editingNote, formFile, formImageUrl, lastSave>>
storeVars == <<notes, nextId, createdBy, deleted>>
uiVars == <<isCreating, editingNote, formFile, formImageUrl, lastSave>>

-----------------------------------------------------------------------------
(* Bounds and input sets *)

MaxNotes == 2
\* the notes created while the presentation layer is followed
MaxFormNotes == 1

Undefined == "undefined"
Null == "null"
\* an optional text argument that is not given
UndefinedText == <<"undefined">>

Users == {"u1", "u2"}
Callers == Users \cup {Undefined}
NoteIds == 1..MaxNotes

\* JavaScript truthiness of an optional string
Truthy(s) == s # Undefined /\ s # Null /\ s # ""

\* JavaScript truthiness of an optional text
TruthyText(t) == t # UndefinedText /\ t # <<>>

Mua == <<"m", "u", "a">>
Sam == <<"s", "a", "m">>
Sua == <<"s", "u", "a">>
Sp == <<" ">>

StorageKeys == {"s1", "s2", "s3", "s4"}

\* argument tuples of create / update used by the direct callers
Payloads ==
  { [title |-> Mua \o Sp \o Sam, content |-> Mua,
     tags |-> << <<"a">>, <<"b">> >>, storageId |-> Undefined, imageUrl |-> Undefined],
    [title |-> Mua, content |-> Mua \o Sp \o Sua,
     tags |-> << <<"b">>, <<"c">> >>, storageId |-> Undefined, imageUrl |-> "http://img"],
    [title |-> Sua, content |-> Sam,
     tags |-> << <<"A">>, <<" ", "a">> >>, storageId |-> "s1", imageUrl |-> Undefined],
    [title |-> Sam, content |-> Sua \o Sp \o Mua,
     tags |-> << <<"b">>, <<"a">>, <<"b">> >>, storageId |-> "s2", imageUrl |-> ""] }

Queries == { <<>>, <<" ">>, <<"m", "u">>, Sp \o Sua \o Sp \o Sam, <<"z">> }
TagArgs == { UndefinedText, <<>>, <<"a">>, <<"A">>, <<"b">>, <<" ", "a">> }

-----------------------------------------------------------------------------
(* Sequence helpers *)

Range(s) == { s[i] : i \in 1..Len(s) }

Reverse(s) == [i \in 1..Len(s) |-> s[Len(s) + 1 - i]]

NoDuplicates(s) == \A i, j \in 1..Len(s) : s[i] = s[j] => i = j

IdsOf(s) == [i \in 1..Len(s) |-> s[i]._id]

\* Array.prototype.filter with the predicate note.tags.includes(tag)
RECURSIVE FilterByTag(_, _)
FilterByTag(s, tag) ==
  IF s = <<>> THEN <<>>
  ELSE (IF \E k \in 1..Len(Head(s).tags) : Head(s).tags[k] = tag
        THEN <<Head(s)>> ELSE <<>>) \o FilterByTag(Tail(s), tag)

-----------------------------------------------------------------------------
(* String.prototype.trim and the words of a text *)

IsSpace(c) == c = " "

RECURSIVE TrimStart(_)
TrimStart(s) ==
  IF s = <<>> THEN <<>>
  ELSE IF IsSpace(Head(s)) THEN TrimStart(Tail(s)) ELSE s

RECURSIVE TrimEnd(_)
TrimEnd(s) ==
  IF s = <<>> THEN <<>>
  ELSE IF IsSpace(s[Len(s)]) THEN TrimEnd(SubSeq(s, 1, Len(s) - 1)) ELSE s

trim(s) == TrimEnd(TrimStart(s))

\* the words of a text, split at white space, in order
RECURSIVE WordsAcc(_, _)
WordsAcc(s, cur) ==
  IF s = <<>> THEN (IF cur = <<>> THEN <<>> ELSE <<cur>>)
  ELSE IF IsSpace(Head(s))
       THEN (IF cur = <<>> THEN <<>> ELSE <<cur>>) \o WordsAcc(Tail(s), <<>>)
       ELSE WordsAcc(Tail(s), Append(cur, Head(s)))

Words(s) == WordsAcc(s, <<>>)

IsPrefix(p, w) == Len(p) <= Len(w) /\ SubSeq(w, 1, Len(p)) = p


-----------------------------------------------------------------------------
(* The store: index scans of the "notes" table *)

\* getAuthUserId: the caller's user id, or a falsy value when there is none
getAuthUserId(caller) == caller

Oldest(S) == CHOOSE n \in S : \A m \in S : n._creationTime <= m._creationTime

RECURSIVE Ascending(_)
Ascending(S) ==
  IF S = {} THEN <<>> ELSE <<Oldest(S)>> \o Ascending(S \ {Oldest(S)})

\* a scan that forgets the by_user index range
ByUserAsc_AllUsers(userId) ==
  Ascending({ notes[i] : i \in DOMAIN notes })

\* withIndex("by_user", q => q.eq("userId", userId)).collect(): index order,
\* which within one user is ascending creation time
ByUserAsc(userId) ==
  Ascending({ notes[i] : i \in { j \in DOMAIN notes : notes[j].userId = userId } })

\* ... .order("desc").collect()
ByUserDesc(userId) == Reverse(ByUserAsc(userId))

\* full-text match of the words of a search field against the terms of a
\* query: the positions of the words that equal some term, the last term
\* matching as a prefix
TermHits(ws, ts) ==
  { k \in 1..Len(ws) :
      \E t \in 1..Len(ts) :
        IF t = Len(ts) THEN IsPrefix(ts[t], ws[k]) ELSE ts[t] = ws[k] }

\* relevance of a field with that many hits and words: more hits first,
\* shorter fields first
Score(hits, length) == 10 * hits - length

\* matched: triples <<note id, hits, words>>; the most relevant first, the
\* newer note on a tie
RECURSIVE ByRelevance(_)
ByRelevance(matched) ==
  IF matched = {} THEN <<>>
  ELSE LET best == CHOOSE p \in matched : \A q \in matched :
                     \/ Score(p[2], p[3]) > Score(q[2], q[3])
                     \/ /\ Score(p[2], p[3]) = Score(q[2], q[3])
                        /\ notes[p[1]]._creationTime >= notes[q[1]]._creationTime
       IN  <<notes[best[1]]>> \o ByRelevance(matched \ {best})

\* withSearchIndex(index, q => q.search(field, query).eq("userId", userId)).collect()
SearchIndex(field, query, userId) ==
  LET ts == Words(query)
      owned == { <<j, Words(notes[j][field])>> :
                   j \in { i \in DOMAIN notes : notes[i].userId = userId } }
      counted == { <<p[1], Cardinality(TermHits(p[2], ts)), Len(p[2])>> : p \in owned }
  IN  ByRelevance({ p \in counted : p[2] > 0 })

\* ctx.storage.getUrl: the serving URL of a stored blob, null when there is none
BlobUrl(key) ==
  CASE key = "s1" -> "blob://s1" [] key = "s2" -> "blob://s2"
    [] key = "s3" -> "blob://s3" [] OTHER -> "blob://s4"

getUrl(key) == IF key \in blobs THEN BlobUrl(key) ELSE Null

-----------------------------------------------------------------------------
(* Queries of the access layer *)

list(caller) ==
  LET userId == getAuthUserId(caller)
      found == ByUserDesc(userId)
  IN  IF ~Truthy(userId) THEN <<>>
      ELSE [i \in 1..Len(found) |->
              [found[i] EXCEPT !.imageUrl =
                 IF Truthy(found[i].storageId) THEN getUrl(found[i].storageId)
                 ELSE found[i].imageUrl]]

\* a merge that concatenates the two result lists and keeps every element
UniqueResults_NoDedup(allResults) == allResults

\* allResults.filter((note, index, self) =>
\*   index === self.findIndex(n => n._id === note._id))
UniqueResults(allResults) ==
  LET findIndex(id) ==
        CHOOSE i \in 1..Len(allResults) :
          /\ allResults[i]._id = id
          /\ \A j \in 1..(i - 1) : allResults[j]._id # id
      RECURSIVE keep(_)
      keep(i) ==
        IF i > Len(allResults) THEN <<>>
        ELSE (IF i = findIndex(allResults[i]._id) THEN <<allResults[i]>> ELSE <<>>)
               \o keep(i + 1)
  IN  keep(1)

\* a search that tests the query for emptiness without trimming it
search_NoTrim(caller, query, tag) ==
  LET userId == getAuthUserId(caller)
      titleResults == SearchIndex("title", query, userId)
      contentResults == SearchIndex("content", query, userId)
      uniqueResults == UniqueResults(titleResults \o contentResults)
  IN  IF ~Truthy(userId) THEN <<>>
      ELSE IF query = <<>>
           THEN IF TruthyText(tag) THEN FilterByTag(ByUserDesc(userId), tag)
                ELSE ByUserDesc(userId)
           ELSE IF TruthyText(tag) THEN FilterByTag(uniqueResults, tag)
                ELSE uniqueResults

search(caller, query, tag) ==
  LET userId == getAuthUserId(caller)
      titleResults == SearchIndex("title", query, userId)
      contentResults == SearchIndex("content", query, userId)
      uniqueResults == UniqueResults(titleResults \o contentResults)
  IN  IF ~Truthy(userId) THEN <<>>
      ELSE IF trim(query) = <<>>
           THEN IF TruthyText(tag) THEN FilterByTag(ByUserDesc(userId), tag)
                ELSE ByUserDesc(userId)
           ELSE IF TruthyText(tag) THEN FilterByTag(uniqueResults, tag)
                ELSE uniqueResults

\* notes.flatMap(note => note.tags)
RECURSIVE FlatTags(_)
FlatTags(s) == IF s = <<>> THEN <<>> ELSE Head(s).tags \o FlatTags(Tail(s))

\* the UTF-16 code unit of a character
CharCode(c) ==
  CASE c = " " -> 32 [] c = "," -> 44 [] c = "A" -> 65 [] c = "B" -> 66
    [] c = "a" -> 97 [] c = "b" -> 98 [] c = "c" -> 99 [] c = "m" -> 109
    [] c = "s" -> 115 [] c = "u" -> 117 [] OTHER -> 122

\* the default comparison of Array.prototype.sort: by code units, a proper
\* prefix before the longer string
RECURSIVE LexLess(_, _)
LexLess(s, t) ==
  IF t = <<>> THEN FALSE
  ELSE IF s = <<>> THEN TRUE
  ELSE IF CharCode(Head(s)) # CharCode(Head(t))
       THEN CharCode(Head(s)) < CharCode(Head(t))
       ELSE LexLess(Tail(s), Tail(t))

\* uniqueTags.sort()
RECURSIVE SortTags(_)
SortTags(S) ==
  IF S = {} THEN <<>>
  ELSE LET least == CHOOSE t \in S : \A u \in S \ {t} : LexLess(t, u)
       IN  <<least>> \o SortTags(S \ {least})

\* an aggregation over the whole table instead of the caller's notes
getAllTags_AllUsers(caller) ==
  LET userId == getAuthUserId(caller)
      allTags == FlatTags(Ascending({ notes[i] : i \in DOMAIN notes }))
      uniqueTags == Range(allTags)
  IN  IF ~Truthy(userId) THEN <<>> ELSE SortTags(uniqueTags)

getAllTags(caller) ==
  LET userId == getAuthUserId(caller)
      allTags == FlatTags(ByUserAsc(userId))
      uniqueTags == Range(allTags)
  IN  IF ~Truthy(userId) THEN <<>> ELSE SortTags(uniqueTags)

-----------------------------------------------------------------------------
(* Mutations of the access layer *)

\* the messages of the errors the handlers throw
MsgCreateUnauthenticated == "create: sign in to create a note"
MsgUpdateUnauthenticated == "update: sign in to edit a note"
MsgUpdateNotFound == "update: note not found or no permission to edit"
MsgRemoveUnauthenticated == "remove: sign in to delete a note"
MsgRemoveNotFound == "remove: note not found or no permission to delete"

\* the error class of section 7 that a thrown message belongs to
ErrorKind(outcome) ==
  IF outcome \in {MsgCreateUnauthenticated, MsgUpdateUnauthenticated,
                  MsgRemoveUnauthenticated} THEN "Unauthenticated"
  ELSE IF outcome \in {MsgUpdateNotFound, MsgRemoveNotFound}
       THEN "NotFoundOrForbidden"
       ELSE "none"

Call(op, caller, id, outcome) ==
  [op |-> op, caller |-> caller, id |-> id, outcome |-> outcome]

\* ctx.db.get(id): the document, or null
Exists(id) == id \in DOMAIN notes

\* ctx.db.patch(id, fields): every listed field is overwritten; a field
\* given as undefined is removed from the document
patch(doc, args) ==
  [doc EXCEPT !.title = args.title, !.content = args.content,
              !.tags = args.tags, !.storageId = args.storageId,
              !.imageUrl = args.imageUrl]

\* an update that checks existence but not ownership
UpdateOutcome_NoOwnerCheck(caller, id) ==
  IF ~Truthy(getAuthUserId(caller)) THEN MsgUpdateUnauthenticated
  ELSE IF ~Exists(id) THEN MsgUpdateNotFound
       ELSE "ok"

\* a remove without the identity check: a missing identity is then just
\* another non-owner
RemoveOutcome_NoAuthCheck(caller, id) ==
  IF ~Exists(id) \/ notes[id].userId # getAuthUserId(caller)
  THEN MsgRemoveNotFound
  ELSE "ok"

\* the outcome of update / remove before it writes: which error, if any
UpdateOutcome(caller, id) ==
  IF ~Truthy(getAuthUserId(caller)) THEN MsgUpdateUnauthenticated
  ELSE IF ~Exists(id) \/ notes[id].userId # getAuthUserId(caller)
       THEN MsgUpdateNotFound
       ELSE "ok"

RemoveOutcome(caller, id) ==
  IF ~Truthy(getAuthUserId(caller)) THEN MsgRemoveUnauthenticated
  ELSE IF ~Exists(id) \/ notes[id].userId # getAuthUserId(caller)
       THEN MsgRemoveNotFound
       ELSE "ok"

\* ctx.db.insert("notes", {...}): a fresh id and creation time
Inserted(userId, args) ==
  [_id |-> nextId, _creationTime |-> nextId, userId |-> userId,
   title |-> args.title, content |-> args.content, tags |-> args.tags,
   storageId |-> args.storageId, imageUrl |-> args.imageUrl]

\* the store after create / update / remove, as relations on storeVars and last
createCall(caller, args) ==
  IF ~Truthy(getAuthUserId(caller))
  THEN /\ last' = Call("create", caller, 0, MsgCreateUnauthenticated)
       /\ UNCHANGED storeVars
  ELSE /\ nextId <= MaxNotes
       /\ notes' = notes @@ (nextId :> Inserted(getAuthUserId(caller), args))
       /\ nextId' = nextId + 1
       /\ createdBy' = Append(createdBy, caller)
       /\ last' = Call("create", caller, nextId, "ok")
       /\ UNCHANGED deleted

updateCall(caller, id, args) ==
  /\ last' = Call("update", caller, id, UpdateOutcome(caller, id))
  /\ IF UpdateOutcome(caller, id) = "ok"
     THEN notes' = [notes EXCEPT ![id] = patch(notes[id], args)]
     ELSE UNCHANGED notes
  /\ UNCHANGED <<nextId, createdBy, deleted>>

\* a remove that records the deletion but leaves the document in the table
removeCall_KeepsDocument(caller, id) ==
  /\ last' = Call("remove", caller, id, RemoveOutcome(caller, id))
  /\ IF RemoveOutcome(caller, id) = "ok"
     THEN /\ deleted' = deleted \cup {id}
          /\ UNCHANGED notes
     ELSE UNCHANGED <<notes, deleted>>
  /\ UNCHANGED <<nextId, createdBy>>

removeCall(caller, id) ==
  /\ last' = Call("remove", caller, id, RemoveOutcome(caller, id))
  /\ IF RemoveOutcome(caller, id) = "ok"
     THEN /\ notes' = [i \in DOMAIN notes \ {id} |-> notes[i]]
          /\ deleted' = deleted \cup {id}
     ELSE UNCHANGED <<notes, deleted>>
  /\ UNCHANGED <<nextId, createdBy>>

\* a client calling the mutations directly
create(caller, args) ==
  /\ createCall(caller, args)
  /\ UNCHANGED <<blobs, uiVars>>

update(caller, id, args) ==
  /\ updateCall(caller, id, args)
  /\ UNCHANGED <<blobs, uiVars>>

remove(caller, id) ==
  /\ removeCall(caller, id)
  /\ UNCHANGED <<blobs, uiVars>>

-----------------------------------------------------------------------------
(* The access layer under arbitrary direct callers *)

NoCall == Call("none", Undefined, 0, "none")
NoSave == [flow |-> "none", upload |-> "none", sent |-> FALSE, seq |-> 0,
           urlField |-> "", before |-> <<Undefined, Undefined>>]

Init ==
  /\ notes = <<>>
  /\ nextId = 1
  /\ blobs = {}
  /\ last = NoCall
  /\ createdBy = <<>>
  /\ deleted = {}
  /\ isCreating = FALSE
  /\ editingNote = <<>>
  /\ formFile = Undefined
  /\ formImageUrl = ""
  /\ lastSave = NoSave

Next ==
  \/ \E caller \in Callers, args \in Payloads : create(caller, args)
  \/ \E caller \in Callers, id \in NoteIds, args \in Payloads : update(caller, id, args)
  \/ \E caller \in Callers, id \in NoteIds : remove(caller, id)

Spec == Init /\ [][Next]_vars

-----------------------------------------------------------------------------
(* The presentation layer: NotesApp and NoteForm *)

\* NotesApp is rendered only inside <Authenticated>: its calls carry the
\* signed-in user's identity
UIUser == "u1"

Files == {"f1"}
UrlTexts == {"", "http://img"}

\* the storage keys Blob Storage hands out, in this order
UploadKeys == <<"s3", "s4">>

\* the create arguments of the other clients of the signed-in user
ClientPayloads == { args \in Payloads : args.imageUrl = Undefined }
UploadOutcomes == {"ok", "throws", "noKey"}

\* what the title, content and tags fields of the form hold at submit
FormInputs ==
  { [title |-> Sp \o Mua \o Sp, content |-> Sua,
     tagsInput |-> <<"a", ",", " ", "b", ",", " ">>],
    [title |-> Sp, content |-> Sua, tagsInput |-> <<>>] }

\* String.prototype.split(","): the pieces between commas, empty ones kept
RECURSIVE SplitAcc(_, _)
SplitAcc(s, cur) ==
  IF s = <<>> THEN <<cur>>
  ELSE IF Head(s) = "," THEN <<cur>> \o SplitAcc(Tail(s), <<>>)
       ELSE SplitAcc(Tail(s), Append(cur, Head(s)))

\* tagsInput.split(",").map(tag => tag.trim()).filter(tag => tag.length > 0)
ParseTags(tagsInput) ==
  LET pieces == SplitAcc(tagsInput, <<>>)
      trimmed == [i \in 1..Len(pieces) |-> trim(pieces[i])]
  IN  SelectSeq(trimmed, LAMBDA tag : Len(tag) > 0)

\* the notes on screen: useQuery(api.notes.search, ...) with the search box
\* empty and no tag selected
Displayed == search(UIUser, <<>>, UndefinedText)

FormMounted == isCreating \/ editingNote # <<>>

\* NoteForm's useState initialisers for the image fields
InitialImageUrl(snapshot) ==
  IF snapshot # <<>> /\ Truthy(snapshot[1].imageUrl) THEN snapshot[1].imageUrl
  ELSE ""

\* the record of a save: the flow, how the upload went, whether the mutation
\* was invoked, the URL field's text, and the image fields of the note being
\* edited as the form knew them; seq alternates, so that every save shows
Save(flow, upload, sent) ==
  [flow |-> flow, upload |-> upload, sent |-> sent, seq |-> 1 - lastSave.seq,
   urlField |-> formImageUrl,
   before |-> IF editingNote = <<>> THEN <<Undefined, Undefined>>
              ELSE <<editingNote[1].storageId, editingNote[1].imageUrl>>]

\* "+ Tao ghi chu moi": setIsCreating(true), which mounts an empty form
openCreate ==
  /\ ~FormMounted
  /\ isCreating' = TRUE
  /\ formFile' = Undefined
  /\ formImageUrl' = InitialImageUrl(<<>>)
  /\ UNCHANGED <<storeVars, blobs, last, editingNote, lastSave>>

\* the pencil of a card: setEditingNote(note); a form that is already
\* mounted keeps its field state
onEdit(note) ==
  /\ editingNote' = <<note>>
  /\ IF FormMounted THEN UNCHANGED <<formFile, formImageUrl>>
     ELSE /\ formFile' = Undefined
          /\ formImageUrl' = InitialImageUrl(<<note>>)
  /\ UNCHANGED <<storeVars, blobs, last, isCreating, lastSave>>

\* "Huy": both flags are reset and the form unmounts
onCancel ==
  /\ FormMounted
  /\ isCreating' = FALSE
  /\ editingNote' = <<>>
  /\ formFile' = Undefined
  /\ formImageUrl' = ""
  /\ UNCHANGED <<storeVars, blobs, last, lastSave>>

\* the file input: setFile(e.target.files?.[0])
setFile(file) ==
  /\ FormMounted
  /\ formFile' = file
  /\ UNCHANGED <<storeVars, blobs, last, isCreating, editingNote, formImageUrl, lastSave>>

\* the URL input: setImageUrl(e.target.value)
setImageUrl(text) ==
  /\ FormMounted
  /\ formImageUrl' = text
  /\ UNCHANGED <<storeVars, blobs, last, isCreating, editingNote, formFile, lastSave>>

\* the key of the next stored blob
HasNewKey == \E i \in 1..Len(UploadKeys) : UploadKeys[i] \notin blobs

NewKey ==
  UploadKeys[CHOOSE i \in 1..Len(UploadKeys) :
               /\ UploadKeys[i] \notin blobs
               /\ \A j \in 1..(i - 1) : UploadKeys[j] \in blobs]

\* generateUploadUrl, the POST of the file and result.json(): the storage id
\* the flow goes on with, when the transfer does not throw
UploadedId(outcome) == IF outcome = "ok" THEN NewKey ELSE Undefined

Uploads(outcome) ==
  /\ outcome = "ok" => HasNewKey
  /\ blobs' = IF outcome = "ok" THEN blobs \cup {NewKey} ELSE blobs

handleCreateNote(title, content, tags, file, imageUrl, outcome) ==
  IF file # Undefined /\ outcome = "throws"
  THEN /\ lastSave' = Save("create", "throws", FALSE)
       /\ UNCHANGED <<storeVars, blobs, last, isCreating, editingNote,
                      formFile, formImageUrl>>
  ELSE /\ IF file # Undefined THEN Uploads(outcome) ELSE UNCHANGED blobs
       /\ createCall(UIUser,
            [title |-> title, content |-> content, tags |-> tags,
             storageId |-> IF file # Undefined THEN UploadedId(outcome)
                           ELSE Undefined,
             imageUrl |-> imageUrl])
       /\ lastSave' = Save("create", IF file # Undefined THEN outcome ELSE "nofile", TRUE)
       /\ isCreating' = FALSE
       /\ formFile' = Undefined
       /\ formImageUrl' = ""
       /\ UNCHANGED editingNote

\* the storageId and imageUrl that handleUpdateNote sends
FinalStorageId(file, imageUrl, outcome) ==
  IF file # Undefined THEN UploadedId(outcome)
  ELSE IF imageUrl # editingNote[1].imageUrl THEN Undefined
       ELSE editingNote[1].storageId

\* an update flow that stores the new blob but does not clear the old URL
FinalImageUrl_KeepsUrl(file, imageUrl, outcome) ==
  IF file # Undefined THEN editingNote[1].imageUrl
  ELSE IF imageUrl # editingNote[1].imageUrl THEN imageUrl
       ELSE editingNote[1].imageUrl

FinalImageUrl(file, imageUrl, outcome) ==
  IF file # Undefined THEN Undefined
  ELSE IF imageUrl # editingNote[1].imageUrl THEN imageUrl
       ELSE editingNote[1].imageUrl

handleUpdateNote(id, title, content, tags, file, imageUrl, outcome) ==
  IF file # Undefined /\ outcome = "throws"
  THEN /\ lastSave' = Save("update", "throws", FALSE)
       /\ UNCHANGED <<storeVars, blobs, last, isCreating, editingNote,
                      formFile, formImageUrl>>
  ELSE /\ IF file # Undefined THEN Uploads(outcome) ELSE UNCHANGED blobs
       /\ updateCall(UIUser, id,
            [title |-> title, content |-> content, tags |-> tags,
             storageId |-> FinalStorageId(file, imageUrl, outcome),
             imageUrl |-> FinalImageUrl(file, imageUrl, outcome)])
       /\ lastSave' = Save("update", IF file # Undefined THEN outcome ELSE "nofile", TRUE)
       /\ IF UpdateOutcome(UIUser, id) = "ok"
          THEN /\ editingNote' = <<>>
               /\ IF isCreating THEN UNCHANGED <<formFile, formImageUrl>>
                  ELSE formFile' = Undefined /\ formImageUrl' = ""
          ELSE UNCHANGED <<editingNote, formFile, formImageUrl>>
       /\ UNCHANGED isCreating

\* the form's submit: validation, tag parsing, then onSave, which updates
\* when a note is being edited and creates otherwise
handleSubmit(input, outcome) ==
  /\ FormMounted
  /\ IF trim(input.title) = <<>> \/ trim(input.content) = <<>>
     THEN UNCHANGED vars
     ELSE IF editingNote # <<>>
          THEN handleUpdateNote(editingNote[1]._id, trim(input.title),
                 trim(input.content), ParseTags(input.tagsInput),
                 formFile, formImageUrl, outcome)
          ELSE handleCreateNote(trim(input.title), trim(input.content),
                 ParseTags(input.tagsInput), formFile, formImageUrl, outcome)

\* the bin of a card: deleteNote({ id: note._id })
onDelete(note) ==
  /\ removeCall(UIUser, note._id)
  /\ UNCHANGED <<blobs, uiVars>>

NextUI ==
  \/ \E args \in ClientPayloads : nextId <= MaxFormNotes /\ create(UIUser, args)
  \/ openCreate
  \/ \E i \in 1..Len(Displayed) : onEdit(Displayed[i])
  \/ onCancel
  \/ \E file \in Files \cup {Undefined} : setFile(file)
  \/ \E text \in UrlTexts : setImageUrl(text)
  \/ \E input \in FormInputs, outcome \in UploadOutcomes :
       (editingNote = <<>> => nextId <= MaxFormNotes) /\ handleSubmit(input, outcome)
  \/ \E i \in 1..Len(Displayed) : onDelete(Displayed[i])

SpecUI == Init /\ [][NextUI]_vars

-----------------------------------------------------------------------------
(* Properties of the access layer *)

\* this step is a mutation call, which last' records (a call that repeats
\* the recorded one and changes nothing is a stuttering step of the store)
IsCall == last' # last \/ storeVars' # storeVars

Called(op) == IsCall /\ last'.op = op

\* the ids user u created and nobody deleted, newest first, from the history
RECURSIVE OwnedDesc(_, _)
OwnedDesc(u, i) ==
  IF i = 0 THEN <<>>
  ELSE (IF createdBy[i] = u /\ i \notin deleted THEN <<i>> ELSE <<>>)
         \o OwnedDesc(u, i - 1)

\* C1: listNotes under user U returns exactly the notes U created that were
\* not deleted, newest first by creation time; no note of U is listed under
\* another identity; with no identity the list is empty.
C1_ListOwnership ==
  /\ \A u \in Users :
       /\ IdsOf(list(u)) = OwnedDesc(u, Len(createdBy))
       /\ \A i, j \in 1..Len(list(u)) :
            i < j => list(u)[i]._creationTime > list(u)[j]._creationTime
       /\ \A v \in Callers \ {u} : \A i \in 1..Len(createdBy) :
            createdBy[i] = u => i \notin Range(IdsOf(list(v)))
  /\ list(Undefined) = <<>>

\* each of two users has created a note, and each list holds its owner's
\* note only
C1_Witness ==
  \E u, v \in Users :
    /\ u # v
    /\ Len(list(u)) = 1 /\ Len(list(v)) = 1
    /\ createdBy[list(u)[1]._id] = u
    /\ createdBy[list(v)[1]._id] = v

\* C2: updateNote by an authenticated caller on a missing note or on a note
\* of another owner fails with the one NotFoundOrForbidden error and changes
\* no field of any note.
C2_UpdateRejected ==
  [][ ( /\ Called("update")
        /\ Truthy(last'.caller)
        /\ \/ last'.id \notin DOMAIN notes
           \/ notes[last'.id].userId # last'.caller )
      => /\ last'.outcome = MsgUpdateNotFound
         /\ ErrorKind(last'.outcome) = "NotFoundOrForbidden"
         /\ notes' = notes ]_vars

\* an update by a non-owner of an existing note has just been rejected
C2_Witness ==
  /\ last.op = "update"
  /\ last.id \in DOMAIN notes
  /\ Truthy(last.caller)
  /\ notes[last.id].userId # last.caller
  /\ last.outcome = MsgUpdateNotFound

\* a deleted note is in no listing and no search result of any caller
DeletedStayAbsent ==
  \A id \in deleted :
    /\ id \notin DOMAIN notes
    /\ \A caller \in Callers :
         /\ id \notin Range(IdsOf(list(caller)))
         /\ \A query \in Queries, tag \in TagArgs :
              id \notin Range(IdsOf(search(caller, query, tag)))

\* remove by an authenticated non-owner fails and leaves the note stored
NonOwnerRemoveRejected ==
  [][ ( /\ Called("remove")
        /\ Truthy(last'.caller)
        /\ last'.id \in DOMAIN notes
        /\ notes[last'.id].userId # last'.caller )
      => /\ ErrorKind(last'.outcome) = "NotFoundOrForbidden"
         /\ notes' = notes ]_vars

\* C3 as stated: once deleted, a note is absent from every listing and
\* search, and every later update or remove of its id, by anyone, fails with
\* NotFoundOrForbidden without recreating it; remove by a non-owner fails
\* with NotFoundOrForbidden and leaves the note stored.
C3_AsStated ==
  /\ []DeletedStayAbsent
  /\ [][deleted \subseteq deleted']_vars
  /\ [][ ((Called("update") \/ Called("remove")) /\ last'.id \in deleted)
         => /\ ErrorKind(last'.outcome) = "NotFoundOrForbidden"
            /\ notes' = notes ]_vars
  /\ NonOwnerRemoveRejected

\* C3 amended: as stated, for every later update or remove by an
\* authenticated caller; a call without identity fails with Unauthenticated
\* instead, and recreates nothing either.
C3_DeletionPermanent ==
  /\ []DeletedStayAbsent
  /\ [][deleted \subseteq deleted']_vars
  /\ [][ ((Called("update") \/ Called("remove")) /\ last'.id \in deleted)
         => /\ ErrorKind(last'.outcome) =
                 (IF Truthy(last'.caller) THEN "NotFoundOrForbidden"
                  ELSE "Unauthenticated")
            /\ notes' = notes ]_vars
  /\ NonOwnerRemoveRejected

\* the former owner's call on a deleted id has just been rejected, while
\* another note is still stored
C3_Witness ==
  /\ last.op \in {"update", "remove"}
  /\ last.id \in deleted
  /\ last.caller = createdBy[last.id]
  /\ ErrorKind(last.outcome) = "NotFoundOrForbidden"
  /\ DOMAIN notes # {}

\* C4: searchNotes with an empty or white-space query and no tag returns the
\* notes of listNotes under the same identity, in the same order.
C4_EmptySearchIsList ==
  \A caller \in Callers : \A query \in Queries :
    trim(query) = <<>> =>
      IdsOf(search(caller, query, UndefinedText)) = IdsOf(list(caller))

\* a white-space query exists and a caller has two notes to list
C4_Witness ==
  /\ \E query \in Queries : query # <<>> /\ trim(query) = <<>>
  /\ \E caller \in Users : Len(search(caller, <<" ">>, UndefinedText)) >= 2

\* C5 as stated: for every query and every provided tag of any length,
\* searchNotes(q, t) is searchNotes(q, undefined) filtered to the notes whose
\* tags contain t exactly, in the same order.
C5_TagFilter ==
  \A caller \in Callers : \A query \in Queries :
    \A tag \in TagArgs \ {UndefinedText} :
      search(caller, query, tag)
        = FilterByTag(search(caller, query, UndefinedText), tag)

\* C6: for a non-empty query no note occurs twice in the result, a note of
\* both lookups occurs once, and every note of either lookup occurs; this
\* holds of the merge whatever the two lookups return.
C6_SearchDedup ==
  /\ \A caller \in Users : \A query \in Queries :
       trim(query) # <<>> =>
         LET result == search(caller, query, UndefinedText)
             titleIds == Range(IdsOf(SearchIndex("title", query, caller)))
             contentIds == Range(IdsOf(SearchIndex("content", query, caller)))
         IN  /\ NoDuplicates(IdsOf(result))
             /\ Range(IdsOf(result)) = titleIds \cup contentIds
             /\ \A tag \in TagArgs : NoDuplicates(IdsOf(search(caller, query, tag)))
  /\ \A a, b, c, d \in DOMAIN notes :
       LET merged == UniqueResults(<<notes[a], notes[b]>> \o <<notes[c], notes[d]>>)
       IN  /\ NoDuplicates(IdsOf(merged))
           /\ Range(IdsOf(merged)) = {a, b, c, d}

\* some query finds two notes in both lookups, in opposite orders
C6_Witness ==
  \E caller \in Users : \E query \in Queries :
    LET titleIds == IdsOf(SearchIndex("title", query, caller))
        contentIds == IdsOf(SearchIndex("content", query, caller))
    IN  /\ trim(query) # <<>>
        /\ Len(titleIds) = 2
        /\ contentIds = Reverse(titleIds)
        /\ Len(search(caller, query, UndefinedText)) = 2

\* the tags of the notes user u owns now
TagsOwnedBy(u) ==
  UNION { Range(notes[i].tags) : i \in { j \in DOMAIN notes : notes[j].userId = u } }

\* C7: listTags under user U returns the distinct tags of the notes U owns
\* now, each once, in ascending lexicographic order.
C7_TagAggregation ==
  \A u \in Users :
    LET result == getAllTags(u)
    IN  /\ Range(result) = TagsOwnedBy(u)
        /\ NoDuplicates(result)
        /\ \A i, j \in 1..Len(result) : i < j => LexLess(result[i], result[j])

\* a user's notes tagged [a, b] and [b, c] give [a, b, c]
C7_Witness ==
  \E u \in Users :
    /\ \E i, j \in DOMAIN notes :
         /\ notes[i].userId = u /\ notes[j].userId = u
         /\ notes[i].tags = << <<"a">>, <<"b">> >>
         /\ notes[j].tags = << <<"b">>, <<"c">> >>
    /\ getAllTags(u) = << <<"a">>, <<"b">>, <<"c">> >>

\* C8: without identity, listNotes, searchNotes and listTags return the
\* empty sequence, and createNote, updateNote and deleteNote fail with
\* Unauthenticated and leave the store unchanged.
C8_Unauthenticated ==
  /\ [](/\ list(Undefined) = <<>>
        /\ getAllTags(Undefined) = <<>>
        /\ \A query \in Queries, tag \in TagArgs :
             search(Undefined, query, tag) = <<>>)
  /\ [][ (IsCall /\ ~Truthy(last'.caller))
         => /\ ErrorKind(last'.outcome) = "Unauthenticated"
            /\ UNCHANGED <<notes, nextId>> ]_vars

\* a call without identity on an existing note has just been rejected
C8_Witness ==
  /\ last.op \in {"update", "remove"}
  /\ ~Truthy(last.caller)
  /\ last.id \in DOMAIN notes
  /\ ErrorKind(last.outcome) = "Unauthenticated"

-----------------------------------------------------------------------------
(* Properties of the edit flow, under SpecUI *)

\* this step is a save of the form through the given flow
Saved(flow) == lastSave'.seq # lastSave.seq /\ lastSave'.flow = flow

C10_UnchangedImageKept ==
  [][ ( /\ Saved("update")
        /\ lastSave'.upload = "nofile"
        /\ lastSave'.urlField = InitialImageUrl(editingNote)
        /\ last'.outcome = "ok" )
      => /\ notes'[last'.id].storageId = lastSave'.before[1]
         /\ notes'[last'.id].imageUrl = lastSave'.before[2] ]_vars

\* the transfer of this save failed: the request threw, or the endpoint
\* answered with an error body that holds no storageId
FailedTransfer == lastSave'.upload \in {"throws", "noKey"}

\* C11 as stated: in the create and update flows, when a file is supplied and
\* its transfer fails (the request throws, or the endpoint answers with an
\* error response that carries no storage key), createNote / updateNote is not
\* invoked: no note is created and no stored note is modified by that flow.
C11_FailedTransferSendsNothing ==
  [][ ((Saved("create") \/ Saved("update")) /\ FailedTransfer)
      => /\ ~lastSave'.sent
         /\ UNCHANGED <<storeVars, last>> ]_vars

=============================================================================
